---- MODULE Spec2Model ----
(***************************************************************************)
(* Model of the overlay element store of the PDF editor                    *)
(* (src/src/pdf_editor/editor.py: PDFElement, PDFEditor) and of the event  *)
(* handlers of its window (src/src/gui/main_window.py: MainWindow).        *)
(*                                                                         *)
(* Objects live in a heap keyed by their memory address; PDFElement.id is  *)
(* id(self), i.e. that address.  An object is reclaimed as soon as neither *)
(* a page sequence nor selected_element refers to it (reference counting). *)
(*                                                                         *)
(* Lengths are kept in TENTHS of a document unit, so that the text width   *)
(* len(text) * font_size * 0.6 is the integer Len(text) * font_size * 6.   *)
(***************************************************************************)
EXTENDS Integers, Sequences, FiniteSets, TLC

VARIABLES
    heap,              \* address -> PDFElement object (its fields)
    elements,          \* PDFEditor.elements: page_number -> list of addresses
    selected_element,  \* PDFEditor.selected_element: an address or None
    current_pdf,       \* PDFEditor.current_pdf: the open document or None
    current_path,      \* PDFEditor.current_path
    pages_info,        \* PDFEditor.pages_info
    \* history of the calls made on the store (the window's handlers leave it)
    last,              \* the last call, its result, and for a select its arguments
    net,               \* per page, add calls minus successful deletes
    run,               \* the current run of successive successful moves
    issued,            \* every id given to an element so far
    \* the window
    current_page,      \* MainWindow.current_page
    edit_mode,         \* MainWindow.edit_mode
    dragging,          \* MainWindow.dragging
    drag_start,        \* MainWindow.drag_start: a canvas point or NoPoint
    \* history of the events of the window
    event,             \* the key of the last event and the selection it found,
                       \* NoKey after any other event
    press,             \* the element the last <Button-1> hit and where the
                       \* pointer has taken it since, while only pointer-moves
                       \* have followed
    armed,             \* the elements a pointer-down has selected since the
                       \* last release
    canvas_elements,   \* MainWindow.canvas_elements: the ids that have an entry
    drawn,             \* history: the last event has redrawn the canvas
    \* history of the document handlers of the window
    turn,              \* the current run of rotate_left and rotate_right on
                       \* one page: the page, its rotation before the run,
                       \* and the degrees turned to the right since
    passed             \* the last call of PDFEditor.extract_pages by the
                       \* window: the option chosen, the pages the user
                       \* specified, and the page_numbers passed

\* the editor, history variables left out
store == <<heap, elements, selected_element, current_pdf, current_path, pages_info>>

\* the history of the calls made on the store
hist == <<last, net, run, issued>>

\* the PDFEditor object and its history
editor == <<store, hist>>

\* the MainWindow object and its history
gui == <<current_page, edit_mode, dragging, drag_start, event, press, armed,
         canvas_elements, drawn>>

\* the history of the document handlers of the window
pages == <<turn, passed>>

vars == <<heap, elements, selected_element, current_pdf, current_path,
          pages_info, last, net, run, issued,
          current_page, edit_mode, dragging, drag_start, event, press, armed,
          canvas_elements, drawn, turn, passed>>

-----------------------------------------------------------------------------
(* Bounds of the model *)

MaxElems == 2      \* objects alive at the same time
MaxPage == 1       \* page numbers 0..MaxPage are passed to the store
MaxCoord == 5      \* elements are moved within 0..MaxCoord units
MaxInsert == 1     \* texts inserted into one page of the document

-----------------------------------------------------------------------------
(* Values *)

None == 0                                   \* no element
NoDoc == [path |-> "", rotation |-> <<>>, text |-> <<>>]  \* current_pdf is None
NoPath == ""                                \* current_path is None

Addrs == 1..MaxElems

PageNums == 0..MaxPage

T(n) == n * 10     \* n document units, in tenths

\* inputs of the calls
\* len(text) * font_size is a multiple of 5 for every text and font size below,
\* so that the floating-point product with 0.6 is the exact width
Texts == {"helloworld"}                 \* text of add_text_element
NewContents == {"hello", "helloworld"}  \* new_content of edit_selected_element
FontSizes == {10, 12}
ImagePaths == {"img.png"}
ImageSizes == {<<T(50), T(50)>>}
AddPositions == {<<T(0), T(0)>>, <<T(10), T(10)>>}
Deltas == {<<T(5), T(0)>>, <<T(0), T(5)>>, <<T(0) - T(5), T(0) - T(5)>>}
Points == {<<T(0) - 1, T(0)>>, <<T(0), T(0) - 1>>, <<T(0), T(0)>>, <<T(9), T(9)>>,
           <<T(20), T(20)>>, <<T(50), T(50)>>, <<T(50) + 1, T(50)>>,
           <<T(60), T(60) + 1>>, <<T(30), T(10)>>}

\* the files load_pdf can be given and the number of pages of each
Paths == {"doc.pdf"}
PagePaths == {"doc.pdf", "one.pdf", "locked.pdf"}
PageCountOf(path) == IF path \in {"one.pdf", "locked.pdf"} THEN 1 ELSE 2

\* a file fitz.open opens and whose pages it counts, but whose pages do not
\* load: current_pdf[page_num] raises
Unreadable(file_path) == file_path = "locked.pdf"

\* no run of moves: the last call was not a successful move
NoRun == [start |-> <<0, 0>>, sum |-> <<0, 0>>]

\* drag_start is None
NoPoint == <<>>

\* the last event was no key
NoKey == [key |-> "", was |-> None]

\* no pointer-down is being followed
NoPress == [id |-> None, at |-> <<0, 0>>, goal |-> <<0, 0>>]

\* no run of rotations: the last event was not a rotation that succeeded
NoTurn == [page |-> 0 - 1, start |-> 0, sum |-> 0]

\* the window has not called extract_pages in the last event
NoExtract == [option |-> "", chosen |-> <<>>, page_numbers |-> <<>>]

\* the page selection dialog was cancelled: its result is None
NoPages == <<0 - 1>>

\* the corners from which elements are moved: the origin, where the calls on
\* the store put them, and (200, 200), where the window puts a new element
Corners == {0, T(200)}

\* cap of the model: a move is taken only if it keeps the element within
\* MaxCoord units of a corner
InRange(pos) ==
    \E c \in Corners :
        /\ pos[1] >= c /\ pos[1] <= c + T(MaxCoord)
        /\ pos[2] >= c /\ pos[2] <= c + T(MaxCoord)

\* the dict {'content': new_text} that on_canvas_double_click passes to
\* edit_selected_element, written as its repr
Dict(new_text) == "{'content': '" \o new_text \o "'}"

\* inputs of the window: the texts the add-text dialog and the edit dialog
\* return ("" is a cancelled or empty dialog), the file the image dialog
\* returns, the keys, and the pointer positions canvasx(event.x), canvasy(event.y)
DialogTexts == {"", "hello"}
EditTexts == {"", "hello", "world"}
DialogImages == {"", "img.png"}
DialogPaths == {"", "doc.pdf"}
Keys == {"Delete", "Escape"}
Pointer == {<<T(210), T(210)>>, <<T(212), T(211)>>, <<T(100), T(100)>>}

\* a content that is a dict
IsDict(content) == content \in {Dict(t) : t \in EditTexts}

\* Python's len: the number of keys of a dict, the number of characters of a
\* string
len(content) == IF IsDict(content) THEN 1 ELSE Len(content)

-----------------------------------------------------------------------------
(* PDFElement *)

\* PDFElement.__init__ at address a
PDFElement(a, element_type, content, position, size, font_size, color) ==
    [id |-> a,
     type |-> element_type,
     content |-> content,
     position |-> position,
     size |-> size,
     font_size |-> font_size,
     color |-> color,
     selected |-> FALSE,
     page_number |-> 0]

\* (len(text) * font_size * 0.6, font_size), in tenths
TextSize(text, font_size) == <<Len(text) * font_size * 6, T(font_size)>>

-----------------------------------------------------------------------------
(* PDFEditor *)

Init ==
    /\ heap = <<>>
    /\ elements = <<>>
    /\ selected_element = None
    /\ current_pdf = NoDoc
    /\ current_path = NoPath
    /\ pages_info = <<>>
    /\ last = [op |-> "init", args |-> <<>>, ret |-> None]
    /\ net = [p \in PageNums |-> 0]
    /\ run = NoRun
    /\ issued = {}
    /\ current_page = 0
    /\ edit_mode = FALSE
    /\ dragging = FALSE
    /\ drag_start = NoPoint
    /\ event = NoKey
    /\ press = NoPress
    /\ armed = {}
    /\ canvas_elements = {}
    /\ drawn = FALSE
    /\ turn = NoTurn
    /\ passed = NoExtract

\* the objects still referred to by the editor
Reachable(els, sel) ==
    UNION {{els[p][i] : i \in 1..Len(els[p])} : p \in DOMAIN els} \cup
    (IF sel = None THEN {} ELSE {sel})

\* reference counting: objects nothing refers to are freed
Collect(h, els, sel) ==
    [a \in (DOMAIN h) \cap Reachable(els, sel) |-> h[a]]

\* AppendTo, but the page's list is started anew at every call
AppendToFresh(els, page_number, a) ==
    IF page_number \in DOMAIN els
        THEN [els EXCEPT ![page_number] = <<a>>]
        ELSE els @@ (page_number :> <<a>>)

\* AppendTo, but the element is put at the front of the page's list
AppendToFront(els, page_number, a) ==
    IF page_number \in DOMAIN els
        THEN [els EXCEPT ![page_number] = <<a>> \o @]
        ELSE els @@ (page_number :> <<a>>)

\* self.elements[page_number].append(element), creating the list if absent
AppendTo(els, page_number, a) ==
    IF page_number \in DOMAIN els
        THEN [els EXCEPT ![page_number] = Append(@, a)]
        ELSE els @@ (page_number :> <<a>>)

\* PDFEditor.get_page_elements
get_page_elements(page_number) ==
    IF page_number \in DOMAIN elements THEN elements[page_number] ELSE <<>>

\* the element add_text_element makes, at address a
TextElement(a, page_number, text, position, font_size, color) ==
    [PDFElement(a, "text", text, position, TextSize(text, font_size),
                font_size, color)
        EXCEPT !.page_number = page_number]

\* the element add_image_element makes, at address a
ImageElement(a, page_number, image_path, position, size) ==
    [PDFElement(a, "image", image_path, position, size, 12, "black")
        EXCEPT !.page_number = page_number]

add_text_element(page_number, text, position, font_size, color) ==
    \E a \in Addrs \ DOMAIN heap :
        /\ heap' = heap @@ (a :> TextElement(a, page_number, text, position,
                                             font_size, color))
        /\ elements' = AppendTo(elements, page_number, a)
        /\ last' = [op |-> "add_text_element", args |-> <<>>, ret |-> a]
        /\ run' = NoRun
        /\ net' = [net EXCEPT ![page_number] = @ + 1]
        /\ issued' = issued \cup {a}
        /\ UNCHANGED <<selected_element, current_pdf, current_path, pages_info>>

\* add_image_element, but the page list of the document is reset as well
add_image_resets_pages(page_number, image_path, position, size) ==
    \E a \in Addrs \ DOMAIN heap :
        LET element == [PDFElement(a, "image", image_path, position, size, 12, "black")
                            EXCEPT !.page_number = page_number]
        IN  /\ heap' = heap @@ (a :> element)
            /\ elements' = AppendTo(elements, page_number, a)
            /\ last' = [op |-> "add_image_element", args |-> <<>>, ret |-> a]
            /\ run' = NoRun
            /\ net' = [net EXCEPT ![page_number] = @ + 1]
            /\ issued' = issued \cup {a}
            /\ pages_info' = <<>>
            /\ UNCHANGED <<selected_element, current_pdf, current_path>>

add_image_element(page_number, image_path, position, size) ==
    \E a \in Addrs \ DOMAIN heap :
        /\ heap' = heap @@ (a :> ImageElement(a, page_number, image_path,
                                              position, size))
        /\ elements' = AppendTo(elements, page_number, a)
        /\ last' = [op |-> "add_image_element", args |-> <<>>, ret |-> a]
        /\ run' = NoRun
        /\ net' = [net EXCEPT ![page_number] = @ + 1]
        /\ issued' = issued \cup {a}
        /\ UNCHANGED <<selected_element, current_pdf, current_path, pages_info>>

\* the box test of select_element_at_position:
\* x <= position[0] <= x + w and y <= position[1] <= y + h
Contains(element, position) ==
    LET x == element.position[1]
        y == element.position[2]
        w == element.size[1]
        h == element.size[2]
    IN  /\ x <= position[1] /\ position[1] <= x + w
        /\ y <= position[2] /\ position[2] <= y + h

\* ScanReversed, but scanning in insertion order: the oldest hit among 1..i
ScanForward(h, seq, i, position) ==
    LET hits == {j \in 1..i : Contains(h[seq[j]], position)}
    IN  IF hits = {} THEN None
        ELSE seq[CHOOSE j \in hits : \A k \in hits : j <= k]

\* for element in reversed(self.elements[page_number]): the first hit, scanning
\* from index i down to 1, or None
RECURSIVE ScanReversed(_, _, _, _)
ScanReversed(h, seq, i, position) ==
    IF i = 0 THEN None
    ELSE IF Contains(h[seq[i]], position) THEN seq[i]
    ELSE ScanReversed(h, seq, i - 1, position)

\* Deselect, but the previous selection keeps its flag
DeselectNot(h, sel) == h

\* if self.selected_element: self.selected_element.selected = False
Deselect(h, sel) ==
    IF sel = None THEN h ELSE [h EXCEPT ![sel].selected = FALSE]

\* SelectAt, but a hit on the element that is already selected unselects it
SelectAtToggle(h, els, sel, page_number, position) ==
    IF page_number \notin DOMAIN els
    THEN [heap |-> h, selected_element |-> sel, ret |-> None]
    ELSE LET h1 == Deselect(h, sel)
             seq == els[page_number]
             found == ScanReversed(h1, seq, Len(seq), position)
             hit == IF found = sel THEN None ELSE found
         IN  [heap |-> Collect(IF hit = None THEN h1
                               ELSE [h1 EXCEPT ![hit].selected = TRUE],
                               els, hit),
              selected_element |-> hit,
              ret |-> hit]

\* the body of select_element_at_position on the fields h (objects), els
\* (elements) and sel (selected_element): the fields after the call and the
\* value it returns
SelectAt(h, els, sel, page_number, position) ==
    IF page_number \notin DOMAIN els
    THEN [heap |-> h, selected_element |-> sel, ret |-> None]
    ELSE LET h1 == Deselect(h, sel)
             seq == els[page_number]
             hit == ScanReversed(h1, seq, Len(seq), position)
         IN  [heap |-> Collect(IF hit = None THEN h1
                               ELSE [h1 EXCEPT ![hit].selected = TRUE],
                               els, hit),
              selected_element |-> hit,
              ret |-> hit]

select_element_at_position(page_number, position) ==
    \E r \in {SelectAt(heap, elements, selected_element, page_number, position)} :
        /\ heap' = r.heap
        /\ selected_element' = r.selected_element
        /\ last' = [op |-> "select_element_at_position",
                    args |-> <<page_number, position>>, ret |-> r.ret]
        /\ run' = NoRun
        /\ UNCHANGED <<elements, current_pdf, current_path, pages_info, net, issued>>

\* Moved, but the delta is taken as the new position
MovedAbsolute(cur, dx, dy) == <<dx, dy>>

\* (current_x + dx, current_y + dy)
Moved(cur, dx, dy) == <<cur[1] + dx, cur[2] + dy>>

\* the body of move_selected_element on the objects h and the selection sel:
\* the objects after the call and the value it returns
MoveSelected(h, sel, dx, dy) ==
    IF sel # None
    THEN [heap |-> [h EXCEPT ![sel].position = Moved(@, dx, dy)], ret |-> TRUE]
    ELSE [heap |-> h, ret |-> FALSE]

move_selected_element(dx, dy) ==
    \E r \in {MoveSelected(heap, selected_element, dx, dy)} :
        /\ r.ret => InRange(r.heap[selected_element].position)
        /\ heap' = r.heap
        /\ last' = [op |-> "move_selected_element", args |-> <<>>, ret |-> r.ret]
        /\ run' = IF ~r.ret THEN NoRun
                  ELSE IF last.op = "move_selected_element" /\ last.ret = TRUE
                  THEN [run EXCEPT !.sum = <<@[1] + dx, @[2] + dy>>]
                  ELSE [start |-> heap[selected_element].position,
                        sum |-> <<dx, dy>>]
        /\ UNCHANGED <<elements, selected_element, current_pdf,
                       current_path, pages_info, net, issued>>

\* Editable, but without the test of the type
EditableAny(h, sel) == sel # None

\* if self.selected_element and self.selected_element.type == 'text'
Editable(h, sel) == sel # None /\ h[sel].type = "text"

\* EditedSize, but with the default font size 12 for the width
EditedSizeDefaultFont(new_content, font_size) ==
    <<Len(new_content) * 12 * 6, T(font_size)>>

\* (len(new_content) * font_size * 0.6, font_size), in tenths
EditedSize(new_content, font_size) ==
    <<len(new_content) * font_size * 6, T(font_size)>>

\* edit_selected_element, but the edited element is deselected afterwards
edit_and_deselect(new_content) ==
    IF Editable(heap, selected_element)
    THEN LET font_size == heap[selected_element].font_size
         IN  /\ heap' = [heap EXCEPT
                            ![selected_element].content = new_content,
                            ![selected_element].size =
                                EditedSize(new_content, font_size),
                            ![selected_element].selected = FALSE]
             /\ selected_element' = None
             /\ last' = [op |-> "edit_selected_element", args |-> <<>>, ret |-> TRUE]
             /\ run' = NoRun
             /\ UNCHANGED <<elements, current_pdf, current_path, pages_info,
                            net, issued>>
    ELSE /\ last' = [op |-> "edit_selected_element", args |-> <<>>, ret |-> FALSE]
         /\ run' = NoRun
         /\ UNCHANGED <<heap, elements, selected_element, current_pdf,
                        current_path, pages_info, net, issued>>

\* the body of edit_selected_element on the objects h and the selection
\* sel: the objects after the call and the value it returns
EditSelected(h, sel, new_content) ==
    IF Editable(h, sel)
    THEN [heap |-> [h EXCEPT ![sel].content = new_content,
                             ![sel].size = EditedSize(new_content, h[sel].font_size)],
          ret |-> TRUE]
    ELSE [heap |-> h, ret |-> FALSE]

edit_selected_element(new_content) ==
    \E r \in {EditSelected(heap, selected_element, new_content)} :
        /\ heap' = r.heap
        /\ last' = [op |-> "edit_selected_element", args |-> <<>>, ret |-> r.ret]
        /\ run' = NoRun
        /\ UNCHANGED <<elements, selected_element, current_pdf,
                       current_path, pages_info, net, issued>>

\* Remove, but dropping the last item of the list (pop)
RemoveLast(seq, x) == SubSeq(seq, 1, Len(seq) - 1)

\* list.remove(x): drops the first occurrence of x
Remove(seq, x) ==
    LET i == CHOOSE k \in 1..Len(seq) :
                 seq[k] = x /\ \A j \in 1..(k - 1) : seq[j] # x
    IN  SubSeq(seq, 1, i - 1) \o SubSeq(seq, i + 1, Len(seq))

\* delete_selected_element, but True is returned outside the tests too
delete_returns_true ==
    IF /\ selected_element # None
       /\ heap[selected_element].page_number \in DOMAIN elements
    THEN LET page_number == heap[selected_element].page_number
             els == [elements EXCEPT
                        ![page_number] = Remove(@, selected_element)]
         IN  /\ elements' = els
             /\ selected_element' = None
             /\ heap' = Collect(heap, els, None)
             /\ net' = [net EXCEPT ![page_number] = @ - 1]
             /\ last' = [op |-> "delete_selected_element", args |-> <<>>, ret |-> TRUE]
             /\ run' = NoRun
             /\ UNCHANGED <<current_pdf, current_path, pages_info, issued>>
    ELSE /\ last' = [op |-> "delete_selected_element", args |-> <<>>, ret |-> TRUE]
         /\ run' = NoRun
         /\ UNCHANGED <<heap, elements, selected_element, current_pdf,
                        current_path, pages_info, net, issued>>

\* DeleteSelected, but selected_element keeps referring to the element
DeleteSelectedKeepsSelection(h, els, sel) ==
    IF sel # None /\ h[sel].page_number \in DOMAIN els
    THEN LET after == [els EXCEPT ![h[sel].page_number] = Remove(@, sel)]
         IN  [heap |-> Collect(h, after, sel), elements |-> after,
              selected_element |-> sel, ret |-> TRUE]
    ELSE [heap |-> h, elements |-> els, selected_element |-> sel, ret |-> FALSE]

\* the body of delete_selected_element on the fields h, els and sel: the
\* fields after the call and the value it returns
DeleteSelected(h, els, sel) ==
    IF sel # None /\ h[sel].page_number \in DOMAIN els
    THEN LET after == [els EXCEPT ![h[sel].page_number] = Remove(@, sel)]
         IN  [heap |-> Collect(h, after, None), elements |-> after,
              selected_element |-> None, ret |-> TRUE]
    ELSE [heap |-> h, elements |-> els, selected_element |-> sel, ret |-> FALSE]

delete_selected_element ==
    \E r \in {DeleteSelected(heap, elements, selected_element)} :
        /\ heap' = r.heap
        /\ elements' = r.elements
        /\ selected_element' = r.selected_element
        /\ net' = IF r.ret
                  THEN [net EXCEPT ![heap[selected_element].page_number] = @ - 1]
                  ELSE net
        /\ last' = [op |-> "delete_selected_element", args |-> <<>>, ret |-> r.ret]
        /\ run' = NoRun
        /\ UNCHANGED <<current_pdf, current_path, pages_info, issued>>

\* ClearSelection, but the element keeps its selected flag
ClearSelectionKeepsFlag(h, els, sel) ==
    [heap |-> Collect(h, els, None), selected_element |-> None]

\* the body of clear_selection on the fields h, els and sel: the fields after
\* the call
ClearSelection(h, els, sel) ==
    [heap |-> Collect(Deselect(h, sel), els, None), selected_element |-> None]

clear_selection ==
    \E r \in {ClearSelection(heap, elements, selected_element)} :
        /\ heap' = r.heap
        /\ selected_element' = r.selected_element
        /\ last' = [op |-> "clear_selection", args |-> <<>>, ret |-> None]
        /\ run' = NoRun
        /\ UNCHANGED <<elements, current_pdf, current_path, pages_info, net, issued>>

\* fitz.open(file_path): the document, as the rotation of each of its pages
\* and the number of texts inserted into each since it was opened
Open(file_path) ==
    [path |-> file_path,
     rotation |-> [i \in 1..PageCountOf(file_path) |-> 0],
     text |-> [i \in 1..PageCountOf(file_path) |-> 0]]

\* PDFEditor._update_pages_info, for the document doc
PagesInfoOf(doc) ==
    [i \in 1..Len(doc.rotation) |-> [number |-> i, rotation |-> doc.rotation[i]]]

\* the body of load_pdf on the fields doc (current_pdf), path (current_path)
\* and info (pages_info); opened: whether fitz.open succeeds or raises. The
\* try block assigns current_pdf and current_path before _update_pages_info
\* empties pages_info and loads the pages: when the first page does not load,
\* the except clause returns False with the three fields already written
LoadPdf(doc, path, info, file_path, opened) ==
    IF ~opened
    THEN [current_pdf |-> doc, current_path |-> path, pages_info |-> info,
          ret |-> FALSE]
    ELSE IF Unreadable(file_path)
    THEN [current_pdf |-> Open(file_path), current_path |-> file_path,
          pages_info |-> <<>>, ret |-> FALSE]
    ELSE [current_pdf |-> Open(file_path), current_path |-> file_path,
          pages_info |-> PagesInfoOf(Open(file_path)), ret |-> TRUE]

load_pdf(file_path, opened) ==
    \E r \in {LoadPdf(current_pdf, current_path, pages_info, file_path, opened)} :
        /\ current_pdf' = r.current_pdf
        /\ current_path' = r.current_path
        /\ pages_info' = r.pages_info
        /\ last' = [op |-> "load_pdf", args |-> <<>>, ret |-> r.ret]
        /\ run' = NoRun
        /\ UNCHANGED <<heap, elements, selected_element, net, issued>>

close_pdf ==
    /\ IF current_pdf # NoDoc
       THEN /\ current_pdf' = NoDoc
            /\ current_path' = NoPath
            /\ pages_info' = <<>>
       ELSE UNCHANGED <<current_pdf, current_path, pages_info>>
    /\ last' = [op |-> "close_pdf", args |-> <<>>, ret |-> None]
    /\ run' = NoRun
    /\ UNCHANGED <<heap, elements, selected_element, net, issued>>

\* page.set_rotation(angle): the rotation is set to the angle, brought into
\* 0, 90, 180, 270
Normalized(angle) == angle % 360

\* rotate_page, but a page number past the last page is let through
RotatePageAnyPage(doc, info, page_num, angle) ==
    IF doc = NoDoc \/ Unreadable(doc.path)
    THEN [current_pdf |-> doc, pages_info |-> info, ret |-> FALSE]
    ELSE LET turned == [doc EXCEPT !.rotation =
                            [i \in DOMAIN @ |->
                                IF i = page_num + 1 THEN Normalized(angle) ELSE @[i]]]
         IN  [current_pdf |-> turned, pages_info |-> PagesInfoOf(turned),
              ret |-> TRUE]

\* the body of rotate_page on the fields doc (current_pdf) and info
\* (pages_info): the fields after the call and the value it returns; a page
\* that does not load raises inside the try block
RotatePage(doc, info, page_num, angle) ==
    IF doc = NoDoc \/ page_num >= Len(doc.rotation) \/ Unreadable(doc.path)
    THEN [current_pdf |-> doc, pages_info |-> info, ret |-> FALSE]
    ELSE LET turned == [doc EXCEPT !.rotation[page_num + 1] = Normalized(angle)]
         IN  [current_pdf |-> turned, pages_info |-> PagesInfoOf(turned),
              ret |-> TRUE]

\* the body of extract_pages: the pages written to the new file, those of
\* page_numbers that the document has, and the value returned; saved: whether
\* new_pdf.save succeeds or raises
ExtractPages(doc, page_numbers, saved) ==
    IF doc = NoDoc
    THEN [written |-> <<>>, ret |-> FALSE]
    ELSE [written |-> SelectSeq(page_numbers,
                                LAMBDA page_num : page_num < Len(doc.rotation)),
          ret |-> saved]

\* the PNG bytes of the page page_num, named by the page
PngOf(page_num) == page_num + 1

\* the body of get_page_image: the value returned; rendered: whether
\* get_pixmap and tobytes succeed or raise
GetPageImage(doc, page_num, rendered) ==
    IF doc = NoDoc \/ page_num >= Len(doc.rotation) THEN None
    ELSE IF Unreadable(doc.path) \/ ~rendered THEN None
    ELSE PngOf(page_num)

\* the body of PDFEditor.add_text on the field doc (current_pdf): the field
\* after the call and the value returned; inserted: whether insert_text
\* succeeds or raises
AddText(doc, page_num, inserted) ==
    IF doc = NoDoc \/ page_num >= Len(doc.rotation)
    THEN [current_pdf |-> doc, ret |-> FALSE]
    ELSE IF Unreadable(doc.path) \/ ~inserted
    THEN [current_pdf |-> doc, ret |-> FALSE]
    ELSE [current_pdf |-> [doc EXCEPT !.text[page_num + 1] = @ + 1], ret |-> TRUE]

\* the body of save_pdf: the file written and the value returned; output_path
\* "" is None; saved: whether current_pdf.save succeeds or raises
SavePdf(doc, path, output_path, saved) ==
    IF doc = NoDoc \/ ~saved
    THEN [written |-> "", ret |-> FALSE]
    ELSE [written |-> IF output_path # "" THEN output_path ELSE path, ret |-> TRUE]

\* the calls on the store, the window left aside
Next ==
    \/ /\ \E p \in PageNums, t \in Texts, pos \in AddPositions, fs \in FontSizes :
              add_text_element(p, t, pos, fs, "black")
       /\ UNCHANGED <<gui, pages>>
    \/ /\ \E p \in PageNums, path \in ImagePaths, pos \in AddPositions,
              sz \in ImageSizes :
              add_image_element(p, path, pos, sz)
       /\ UNCHANGED <<gui, pages>>
    \/ /\ \E p \in PageNums, pt \in Points : select_element_at_position(p, pt)
       /\ UNCHANGED <<gui, pages>>
    \/ /\ \E d \in Deltas : move_selected_element(d[1], d[2])
       /\ UNCHANGED <<gui, pages>>
    \/ /\ \E t \in NewContents : edit_selected_element(t)
       /\ UNCHANGED <<gui, pages>>
    \/ /\ delete_selected_element
       /\ UNCHANGED <<gui, pages>>
    \/ /\ clear_selection
       /\ UNCHANGED <<gui, pages>>
    \/ /\ \E f \in Paths, opened \in BOOLEAN : load_pdf(f, opened)
       /\ UNCHANGED <<gui, pages>>
    \/ /\ close_pdf
       /\ UNCHANGED <<gui, pages>>

Spec == Init /\ [][Next]_vars

-----------------------------------------------------------------------------
(* MainWindow *)

\* canvas_x = canvasx(event.x) - 10, canvas_y = canvasy(event.y) - 10
CanvasPoint(ev) == <<ev[1] - T(10), ev[2] - T(10)>>

\* the status line of on_canvas_click and the confirmation of on_canvas_key
\* slice the content of a text element, content[:30]: a TypeError when the
\* content is a dict
Raises(element) == element.type = "text" /\ IsDict(element.content)

\* PDFEditor.get_page_count
get_page_count ==
    IF current_pdf # NoDoc THEN Len(current_pdf.rotation) ELSE 0

\* the loop of MainWindow._draw_editable_elements over the sequence seq of
\* the page, from index i on: the ids entered in canvas_elements.
\* ColorPalette has no attribute ACCENT, so the border of a selected element
\* raises AttributeError: for a text element that ends the loop, before its
\* entry is made (the try encloses the loop); for an image the inner try
\* catches it and the entry of the placeholder is made
RECURSIVE _draw_editable_elements(_, _, _)
_draw_editable_elements(h, seq, i) ==
    IF i > Len(seq) THEN {}
    ELSE IF h[seq[i]].type = "text" /\ h[seq[i]].selected THEN {}
    ELSE {seq[i]} \cup _draw_editable_elements(h, seq, i + 1)

\* canvas_elements after a redraw in the present state: cleared, and filled
\* again in edit mode
Redrawn ==
    IF edit_mode
    THEN _draw_editable_elements(heap, get_page_elements(current_page), 1)
    ELSE {}

\* MainWindow._update_display at the end of a handler, if the handler calls
\* it: with a document and an image of the page (get_page_image returns None
\* for a page past the last and for a page that does not load) the canvas is redrawn from the fields the handler
\* leaves
_update_display(called) ==
    IF /\ called
       /\ current_pdf' # NoDoc
       /\ current_page' < Len(current_pdf'.rotation)
       /\ ~Unreadable(current_pdf'.path)
    THEN /\ canvas_elements' = Redrawn'
         /\ drawn' = TRUE
    ELSE /\ UNCHANGED canvas_elements
         /\ drawn' = FALSE

\* file_path: what the file dialog returns ("" when cancelled)
open_pdf(file_path, opened) ==
    /\ IF file_path # ""
       THEN \E r \in {LoadPdf(current_pdf, current_path, pages_info,
                              file_path, opened)} :
              /\ current_pdf' = r.current_pdf
              /\ current_path' = r.current_path
              /\ pages_info' = r.pages_info
              /\ current_page' = IF r.ret THEN 0 ELSE current_page
       ELSE UNCHANGED <<current_pdf, current_path, pages_info, current_page>>
    /\ event' = NoKey
    /\ press' = NoPress
    /\ UNCHANGED <<heap, elements, selected_element, hist,
                   edit_mode, dragging, drag_start, armed>>
    /\ _update_display(file_path # "" /\ opened /\ ~Unreadable(file_path))

toggle_edit_mode ==
    /\ edit_mode' = IF current_pdf # NoDoc THEN ~edit_mode ELSE edit_mode
    /\ event' = NoKey
    /\ press' = NoPress
    /\ UNCHANGED <<editor, current_page, dragging, drag_start, armed>>
    /\ _update_display(current_pdf # NoDoc)

\* add_text, but edit mode is left as it was
add_text_keeps_mode(text) ==
    /\ IF current_pdf # NoDoc /\ text # ""
       THEN \E a \in Addrs \ DOMAIN heap :
              /\ heap' = heap @@ (a :> TextElement(a, current_page, text,
                                                   <<T(200), T(200)>>, 12, "black"))
              /\ elements' = AppendTo(elements, current_page, a)
       ELSE UNCHANGED <<heap, elements>>
    /\ event' = NoKey
    /\ press' = NoPress
    /\ UNCHANGED <<selected_element, current_pdf, current_path, pages_info, hist,
                   current_page, edit_mode, dragging, drag_start, armed>>
    /\ _update_display(current_pdf # NoDoc /\ text # "")

\* text: what the text dialog returns; with a text, the element is added at
\* (200, 200) and edit mode is switched on if it was off
add_text(text) ==
    /\ IF current_pdf # NoDoc /\ text # ""
       THEN \E a \in Addrs \ DOMAIN heap :
              /\ heap' = heap @@ (a :> TextElement(a, current_page, text,
                                                   <<T(200), T(200)>>, 12, "black"))
              /\ elements' = AppendTo(elements, current_page, a)
              /\ edit_mode' = TRUE
       ELSE UNCHANGED <<heap, elements, edit_mode>>
    /\ event' = NoKey
    /\ press' = NoPress
    /\ UNCHANGED <<selected_element, current_pdf, current_path, pages_info, hist,
                   current_page, dragging, drag_start, armed>>
    /\ _update_display(current_pdf # NoDoc /\ text # "")

\* image_file: what the file dialog returns; the image is added at (200, 200)
\* with size (150, 150)
add_image(image_file) ==
    /\ IF current_pdf # NoDoc /\ image_file # ""
       THEN \E a \in Addrs \ DOMAIN heap :
              /\ heap' = heap @@ (a :> ImageElement(a, current_page, image_file,
                                                    <<T(200), T(200)>>,
                                                    <<T(150), T(150)>>))
              /\ elements' = AppendTo(elements, current_page, a)
              /\ edit_mode' = TRUE
       ELSE UNCHANGED <<heap, elements, edit_mode>>
    /\ event' = NoKey
    /\ press' = NoPress
    /\ UNCHANGED <<selected_element, current_pdf, current_path, pages_info, hist,
                   current_page, dragging, drag_start, armed>>
    /\ _update_display(current_pdf # NoDoc /\ image_file # "")

prev_page ==
    /\ current_page' = IF current_page > 0 THEN current_page - 1 ELSE current_page
    /\ event' = NoKey
    /\ press' = NoPress
    /\ UNCHANGED <<editor, edit_mode, dragging, drag_start, armed>>
    /\ _update_display(current_page > 0)

next_page ==
    /\ current_page' = IF current_page < get_page_count - 1
                       THEN current_page + 1 ELSE current_page
    /\ event' = NoKey
    /\ press' = NoPress
    /\ UNCHANGED <<editor, edit_mode, dragging, drag_start, armed>>
    /\ _update_display(current_page < get_page_count - 1)

\* on_canvas_click, but without the test of edit_mode
on_canvas_click_any_mode(ev) ==
    /\ IF current_pdf = NoDoc
       THEN /\ press' = NoPress
            /\ UNCHANGED <<heap, selected_element, drag_start, armed>>
       ELSE \E r \in {SelectAt(heap, elements, selected_element, current_page,
                               CanvasPoint(ev))} :
              IF r.ret # None
              THEN /\ heap' = r.heap
                   /\ selected_element' = r.selected_element
                   /\ drag_start' = IF Raises(r.heap[r.ret]) THEN drag_start
                                    ELSE CanvasPoint(ev)
                   /\ press' = [id |-> r.ret, at |-> CanvasPoint(ev),
                                goal |-> r.heap[r.ret].position]
                   /\ armed' = armed \cup {r.ret}
              ELSE \E c \in {ClearSelection(r.heap, elements, r.selected_element)} :
                   /\ heap' = c.heap
                   /\ selected_element' = c.selected_element
                   /\ drag_start' = NoPoint
                   /\ press' = NoPress
                   /\ armed' = armed \cap DOMAIN c.heap
    /\ event' = NoKey
    /\ UNCHANGED <<elements, current_pdf, current_path, pages_info, hist,
                   current_page, edit_mode, dragging>>
    /\ _update_display(/\ current_pdf # NoDoc
                       /\ \/ selected_element' = None
                          \/ ~Raises(heap'[selected_element']))

\* <Button-1> at ev.  The select is followed by the status line, which raises
\* for a hit whose content is a dict and leaves drag_start as it was; a miss
\* is followed by clear_selection
on_canvas_click(ev) ==
    /\ IF ~edit_mode \/ current_pdf = NoDoc
       THEN /\ press' = NoPress
            /\ UNCHANGED <<heap, selected_element, drag_start, armed>>
       ELSE \E r \in {SelectAt(heap, elements, selected_element, current_page,
                               CanvasPoint(ev))} :
              IF r.ret # None
              THEN /\ heap' = r.heap
                   /\ selected_element' = r.selected_element
                   /\ drag_start' = IF Raises(r.heap[r.ret]) THEN drag_start
                                    ELSE CanvasPoint(ev)
                   /\ press' = [id |-> r.ret, at |-> CanvasPoint(ev),
                                goal |-> r.heap[r.ret].position]
                   /\ armed' = armed \cup {r.ret}
              ELSE \E c \in {ClearSelection(r.heap, elements, r.selected_element)} :
                   /\ heap' = c.heap
                   /\ selected_element' = c.selected_element
                   /\ drag_start' = NoPoint
                   /\ press' = NoPress
                   /\ armed' = armed \cap DOMAIN c.heap
    /\ event' = NoKey
    /\ UNCHANGED <<elements, current_pdf, current_path, pages_info, hist,
                   current_page, edit_mode, dragging>>
    /\ _update_display(/\ edit_mode
                       /\ current_pdf # NoDoc
                       /\ \/ selected_element' = None
                          \/ ~Raises(heap'[selected_element']))

\* history: the pointer has gone from press.at to the point pt, and the goal
\* has gone the same way
Followed(pr, pt) ==
    [pr EXCEPT !.at = pt,
               !.goal = <<@[1] + pt[1] - pr.at[1], @[2] + pt[2] - pr.at[2]>>]

\* <B1-Motion> at ev: the selected element is moved by the way of the pointer
\* since drag_start, and drag_start follows the pointer (the move returns
\* True: an element is selected)
on_canvas_drag(ev) ==
    /\ IF edit_mode /\ drag_start # NoPoint /\ selected_element # None
       THEN \E r \in {MoveSelected(heap, selected_element,
                                   CanvasPoint(ev)[1] - drag_start[1],
                                   CanvasPoint(ev)[2] - drag_start[2])} :
              /\ InRange(r.heap[selected_element].position)
              /\ heap' = r.heap
              /\ drag_start' = IF r.ret THEN CanvasPoint(ev) ELSE drag_start
              /\ dragging' = TRUE
       ELSE UNCHANGED <<heap, drag_start, dragging>>
    /\ press' = IF edit_mode /\ press.id # None
                THEN Followed(press, CanvasPoint(ev)) ELSE NoPress
    /\ event' = NoKey
    /\ UNCHANGED <<elements, selected_element, current_pdf, current_path,
                   pages_info, hist, current_page, edit_mode, armed>>
    /\ _update_display(edit_mode /\ drag_start # NoPoint /\ selected_element # None)

\* on_canvas_release, but drag_start is kept
on_canvas_release_keeps_start ==
    /\ dragging' = FALSE
    /\ event' = NoKey
    /\ press' = NoPress
    /\ armed' = {}
    /\ UNCHANGED <<editor, current_page, edit_mode, drag_start>>
    /\ _update_display(FALSE)

\* <ButtonRelease-1>
on_canvas_release ==
    /\ dragging' = FALSE
    /\ drag_start' = NoPoint
    /\ event' = NoKey
    /\ press' = NoPress
    /\ armed' = {}
    /\ UNCHANGED <<editor, current_page, edit_mode>>
    /\ _update_display(FALSE)

\* <Double-Button-1> at ev; new_text: what the edit dialog returns.  A text
\* that is not empty and differs from the content is passed on as a dict, and
\* the canvas is redrawn after that edit only
on_canvas_double_click(ev, new_text) ==
    /\ event' = NoKey
    /\ press' = NoPress
    /\ UNCHANGED <<elements, current_pdf, current_path, pages_info, hist,
                   current_page, edit_mode, dragging, drag_start>>
    /\ IF ~edit_mode \/ current_pdf = NoDoc
       THEN /\ UNCHANGED <<heap, selected_element, armed>>
            /\ _update_display(FALSE)
       ELSE \E r \in {SelectAt(heap, elements, selected_element, current_page,
                               CanvasPoint(ev))} :
              /\ selected_element' = r.selected_element
              /\ armed' = (armed \cup (IF r.ret = None THEN {} ELSE {r.ret}))
                              \cap DOMAIN r.heap
              /\ IF /\ r.ret # None
                    /\ r.heap[r.ret].type = "text"
                    /\ new_text # ""
                    /\ new_text # r.heap[r.ret].content
                 THEN /\ heap' = EditSelected(r.heap, r.ret, Dict(new_text)).heap
                      /\ _update_display(TRUE)
                 ELSE /\ heap' = r.heap
                      /\ _update_display(FALSE)

\* on_canvas_key, but Escape is handled whatever the edit mode
on_canvas_key_any_mode(keysym, confirm) ==
    /\ \E r \in {IF /\ edit_mode /\ keysym = "Delete" /\ selected_element # None
                    /\ ~Raises(heap[selected_element]) /\ confirm
                 THEN DeleteSelected(heap, elements, selected_element)
                 ELSE IF keysym = "Escape"
                 THEN [elements |-> elements] @@
                      ClearSelection(heap, elements, selected_element)
                 ELSE [heap |-> heap, elements |-> elements,
                       selected_element |-> selected_element]} :
          /\ heap' = r.heap
          /\ elements' = r.elements
          /\ selected_element' = r.selected_element
          /\ armed' = armed \cap DOMAIN r.heap
    /\ event' = [key |-> keysym, was |-> selected_element]
    /\ press' = NoPress
    /\ UNCHANGED <<current_pdf, current_path, pages_info, hist,
                   current_page, edit_mode, dragging, drag_start>>
    /\ _update_display(\/ keysym = "Escape"
                       \/ /\ edit_mode /\ keysym = "Delete" /\ selected_element # None
                          /\ ~Raises(heap[selected_element]) /\ confirm)

\* <Key>; confirm: the answer to the confirmation of a Delete, whose text
\* slices the content of the element as the status line does
on_canvas_key(keysym, confirm) ==
    /\ \E r \in {IF edit_mode /\ keysym = "Delete" /\ selected_element # None
                 THEN IF ~Raises(heap[selected_element]) /\ confirm
                      THEN DeleteSelected(heap, elements, selected_element)
                      ELSE [heap |-> heap, elements |-> elements,
                            selected_element |-> selected_element]
                 ELSE IF edit_mode /\ keysym = "Escape"
                 THEN [elements |-> elements] @@
                      ClearSelection(heap, elements, selected_element)
                 ELSE [heap |-> heap, elements |-> elements,
                       selected_element |-> selected_element]} :
          /\ heap' = r.heap
          /\ elements' = r.elements
          /\ selected_element' = r.selected_element
          /\ armed' = armed \cap DOMAIN r.heap
    /\ event' = [key |-> keysym, was |-> selected_element]
    /\ press' = NoPress
    /\ UNCHANGED <<current_pdf, current_path, pages_info, hist,
                   current_page, edit_mode, dragging, drag_start>>
    /\ _update_display(/\ edit_mode
                       /\ \/ keysym = "Escape"
                          \/ /\ keysym = "Delete" /\ selected_element # None
                             /\ ~Raises(heap[selected_element]) /\ confirm)

\* the events of the window
GuiNext ==
    \/ /\ \E f \in DialogPaths, opened \in BOOLEAN : open_pdf(f, opened)
       /\ UNCHANGED pages
    \/ /\ toggle_edit_mode
       /\ UNCHANGED pages
    \/ /\ \E t \in DialogTexts : add_text(t)
       /\ UNCHANGED pages
    \/ /\ \E f \in DialogImages : add_image(f)
       /\ UNCHANGED pages
    \/ /\ prev_page
       /\ UNCHANGED pages
    \/ /\ next_page
       /\ UNCHANGED pages
    \/ /\ \E ev \in Pointer : on_canvas_click(ev)
       /\ UNCHANGED pages
    \/ /\ \E ev \in Pointer : on_canvas_drag(ev)
       /\ UNCHANGED pages
    \/ /\ on_canvas_release
       /\ UNCHANGED pages
    \/ /\ \E ev \in Pointer, t \in EditTexts : on_canvas_double_click(ev, t)
       /\ UNCHANGED pages
    \/ /\ \E k \in Keys, confirm \in BOOLEAN : on_canvas_key(k, confirm)
       /\ UNCHANGED pages

GuiSpec == Init /\ [][GuiNext]_vars

-----------------------------------------------------------------------------
(* MainWindow: the document *)

\* history: the run of rotations after a rotate_page(current_page, angle)
\* that returned ok and turned the page by `right` degrees to the right
Turned(ok, right) ==
    IF ~ok THEN NoTurn
    ELSE IF turn.page = current_page
    THEN [turn EXCEPT !.sum = (@ + right) % 360]
    ELSE [page |-> current_page,
          start |-> current_pdf.rotation[current_page + 1],
          sum |-> right]

\* rotate_page(self.current_page, -90), and a redraw if it returned True
rotate_left ==
    /\ \E r \in {RotatePage(current_pdf, pages_info, current_page, 0 - 90)} :
          /\ current_pdf' = r.current_pdf
          /\ pages_info' = r.pages_info
          /\ turn' = Turned(r.ret, 270)
          /\ UNCHANGED <<heap, elements, selected_element, current_path, hist,
                         current_page, edit_mode, dragging, drag_start, armed>>
          /\ _update_display(r.ret)
    /\ passed' = NoExtract
    /\ event' = NoKey
    /\ press' = NoPress

\* rotate_page(self.current_page, 90), and a redraw if it returned True
rotate_right ==
    /\ \E r \in {RotatePage(current_pdf, pages_info, current_page, 90)} :
          /\ current_pdf' = r.current_pdf
          /\ pages_info' = r.pages_info
          /\ turn' = Turned(r.ret, 90)
          /\ UNCHANGED <<heap, elements, selected_element, current_path, hist,
                         current_page, edit_mode, dragging, drag_start, armed>>
          /\ _update_display(r.ret)
    /\ passed' = NoExtract
    /\ event' = NoKey
    /\ press' = NoPress

\* the items of the set S of numbers, in ascending order: sorted(set(pages))
RECURSIVE Sorted(_)
Sorted(S) ==
    IF S = {} THEN <<>>
    ELSE LET least == CHOOSE x \in S : \A y \in S : x <= y
         IN  <<least>> \o Sorted(S \ {least})

\* PageSelectionDialog._ok and _cancel: the result of the dialog for the
\* option chosen, the numbers typed for the range and the set of numbers
\* typed for the list.  An invalid entry is refused with an error message
\* and the dialog stays open, so it ends like a cancelled one, with None
PageSelection(selection_type, start, end, typed, total_pages) ==
    IF selection_type = "current" THEN <<0>>
    ELSE IF selection_type = "all" THEN [i \in 1..total_pages |-> i - 1]
    ELSE IF selection_type = "range"
    THEN IF start - 1 < 0 \/ end - 1 >= total_pages \/ start > end
         THEN NoPages
         ELSE [i \in 1..(end - start + 1) |-> start - 1 + i - 1]
    ELSE IF selection_type = "list"
    THEN IF typed = {} \/ \E page \in typed : page - 1 < 0 \/ page - 1 >= total_pages
         THEN NoPages
         ELSE Sorted({page - 1 : page \in typed})
    ELSE NoPages

\* the pages the user specified with the result selected_pages of the dialog
Specified(selection_type, selected_pages) ==
    IF selection_type = "current" THEN <<current_page>> ELSE selected_pages

\* MainWindow.extract_pages; selected_pages: the result of the page selection
\* dialog for the option selection_type, file_path: what the save dialog
\* returns, saved: whether the new file can be written.  A result [0] is
\* replaced by [self.current_page]
MainWindow_extract_pages(selection_type, selected_pages, file_path, saved) ==
    /\ passed' =
          IF current_pdf # NoDoc /\ selected_pages # NoPages /\ file_path # ""
          THEN [option |-> selection_type,
                chosen |-> Specified(selection_type, selected_pages),
                page_numbers |-> IF Len(selected_pages) = 1 /\ selected_pages[1] = 0
                                 THEN <<current_page>>
                                 ELSE selected_pages]
          ELSE NoExtract
    /\ turn' = NoTurn
    /\ event' = NoKey
    /\ press' = NoPress
    /\ UNCHANGED <<editor, current_page, edit_mode, dragging, drag_start, armed>>
    /\ _update_display(FALSE)

\* the inputs of the page selection dialog and of the save dialog
Options == {"cancel", "current", "all", "range", "list"}
RangeEnds == 1..(MaxPage + 2)
Typed == SUBSET (1..(MaxPage + 1))
SavePaths == {"", "out.pdf"}

\* the document handlers of the window
PageNext ==
    \/ /\ \E f \in PagePaths, opened \in BOOLEAN : open_pdf(f, opened)
       /\ turn' = NoTurn
       /\ passed' = NoExtract
    \/ /\ prev_page
       /\ turn' = NoTurn
       /\ passed' = NoExtract
    \/ /\ next_page
       /\ turn' = NoTurn
       /\ passed' = NoExtract
    \/ rotate_left
    \/ rotate_right
    \/ \E o \in Options, start \in RangeEnds, end \in RangeEnds, typed \in Typed,
          f \in SavePaths, saved \in BOOLEAN :
          MainWindow_extract_pages(o, PageSelection(o, start, end, typed,
                                                    get_page_count), f, saved)

PageSpec == Init /\ [][PageNext]_vars

-----------------------------------------------------------------------------
(* PDFEditor: the document *)

PDFEditor_get_page_count ==
    /\ last' = [op |-> "get_page_count", args |-> <<>>, ret |-> get_page_count]
    /\ run' = NoRun
    /\ UNCHANGED <<store, net, issued>>

get_page_image(page_num, rendered) ==
    /\ last' = [op |-> "get_page_image", args |-> <<page_num>>,
                ret |-> GetPageImage(current_pdf, page_num, rendered)]
    /\ run' = NoRun
    /\ UNCHANGED <<store, net, issued>>

rotate_page(page_num, angle) ==
    \E r \in {RotatePage(current_pdf, pages_info, page_num, angle)} :
        /\ current_pdf' = r.current_pdf
        /\ pages_info' = r.pages_info
        /\ last' = [op |-> "rotate_page", args |-> <<page_num>>, ret |-> r.ret]
        /\ run' = NoRun
        /\ UNCHANGED <<heap, elements, selected_element, current_path, net, issued>>

\* the new file is written beside the editor, whose fields are left
extract_pages(page_numbers, saved) ==
    \E r \in {ExtractPages(current_pdf, page_numbers, saved)} :
        /\ last' = [op |-> "extract_pages", args |-> <<>>, ret |-> r.ret]
        /\ run' = NoRun
        /\ UNCHANGED <<store, net, issued>>

\* PDFEditor.add_text (MainWindow.add_text is add_text above)
PDFEditor_add_text(page_num, inserted) ==
    \E r \in {AddText(current_pdf, page_num, inserted)} :
        /\ r.ret => current_pdf.text[page_num + 1] < MaxInsert
        /\ current_pdf' = r.current_pdf
        /\ last' = [op |-> "add_text", args |-> <<page_num>>, ret |-> r.ret]
        /\ run' = NoRun
        /\ UNCHANGED <<heap, elements, selected_element, current_path, pages_info,
                       net, issued>>

save_pdf(output_path, saved) ==
    \E r \in {SavePdf(current_pdf, current_path, output_path, saved)} :
        /\ last' = [op |-> "save_pdf", args |-> <<>>, ret |-> r.ret]
        /\ run' = NoRun
        /\ UNCHANGED <<store, net, issued>>

\* page numbers passed to the document: those of a two-page document and one
\* past its last page
DocPages == 0..(MaxPage + 1)
Angles == {0 - 90, 90, 180}
PageLists == {<<>>} \cup {<<p>> : p \in DocPages} \cup {<<0, p>> : p \in DocPages}

\* the calls on the document of the editor, the window left aside
DocNext ==
    \/ /\ \E f \in PagePaths, opened \in BOOLEAN : load_pdf(f, opened)
       /\ UNCHANGED <<gui, pages>>
    \/ /\ close_pdf
       /\ UNCHANGED <<gui, pages>>
    \/ /\ PDFEditor_get_page_count
       /\ UNCHANGED <<gui, pages>>
    \/ /\ \E p \in DocPages, rendered \in BOOLEAN : get_page_image(p, rendered)
       /\ UNCHANGED <<gui, pages>>
    \/ /\ \E p \in DocPages, angle \in Angles : rotate_page(p, angle)
       /\ UNCHANGED <<gui, pages>>
    \/ /\ \E l \in PageLists, saved \in BOOLEAN : extract_pages(l, saved)
       /\ UNCHANGED <<gui, pages>>
    \/ /\ \E p \in DocPages, inserted \in BOOLEAN : PDFEditor_add_text(p, inserted)
       /\ UNCHANGED <<gui, pages>>
    \/ /\ \E f \in SavePaths, saved \in BOOLEAN : save_pdf(f, saved)
       /\ UNCHANGED <<gui, pages>>

DocSpec == Init /\ [][DocNext]_vars

-----------------------------------------------------------------------------
(* Properties *)

\* the slots (page, index) of the store
Slots == {<<p, i>> : p \in DOMAIN elements, i \in 1..MaxElems} \cap
         UNION {{<<p, i>> : i \in 1..Len(elements[p])} : p \in DOMAIN elements}

\* the element object held in a slot
At(slot) == heap[elements[slot[1]][slot[2]]]

SelectedSlots == {sl \in Slots : At(sl).selected}

\* C1: at most one element across all pages of the store has selected = true
C1_AtMostOneSelected == Cardinality(SelectedSlots) <= 1

\* C1 witness: a select has just made its hit the one selected element of a
\* store that holds another, unselected, element
C1_Witness ==
    /\ last.op = "select_element_at_position" /\ last.ret # None
    /\ Cardinality(Slots) >= 2
    /\ Cardinality(SelectedSlots) = 1

\* C2: whenever select_element_at_position returns None, afterwards no element
\* is selected and selected_element is None
C2_NoneClearsSelection ==
    (last.op = "select_element_at_position" /\ last.ret = None)
        => (selected_element = None /\ SelectedSlots = {})

\* C3: after a successful load_pdf every page's element list is empty and no
\* element is selected
C3_LoadRebuildsEmpty ==
    (last.op = "load_pdf" /\ last.ret = TRUE)
        => /\ \A p \in PageNums : get_page_elements(p) = <<>>
           /\ selected_element = None
           /\ SelectedSlots = {}

\* a point lies in the box [x, x + w] x [y, y + h] of an element, edges included
InBox(e, pt) ==
    /\ pt[1] \in e.position[1]..(e.position[1] + e.size[1])
    /\ pt[2] \in e.position[2]..(e.position[2] + e.size[2])

\* the most recently added element of page p whose box contains pt, or None
TopmostAt(p, pt) ==
    LET seq == get_page_elements(p)
        hits == {i \in 1..Len(seq) : InBox(heap[seq[i]], pt)}
    IN  IF hits = {} THEN None
        ELSE seq[CHOOSE i \in hits : \A j \in hits : j <= i]

\* C4: select_element_at_position(page, point) returns the most recently added
\* element of the page whose box contains the point (edges included), or None
\* when there is none; the returned element gets selected = true and becomes
\* selected_element
C4_SelectsTopmostHit ==
    last.op = "select_element_at_position" =>
        /\ last.ret = TopmostAt(last.args[1], last.args[2])
        /\ last.ret # None =>
              /\ heap[last.ret].selected
              /\ selected_element = last.ret

\* C4 witness: A added first with box (0,0,50,50), B second with box
\* (10,10,50,50) on the same page, and the select at (20,20) has returned B
C4_Witness ==
    \E p \in DOMAIN elements :
        /\ Len(elements[p]) = 2
        /\ last.args = <<p, <<T(20), T(20)>>>>
        /\ heap[elements[p][1]].position = <<T(0), T(0)>>
        /\ heap[elements[p][1]].size = <<T(50), T(50)>>
        /\ heap[elements[p][2]].position = <<T(10), T(10)>>
        /\ heap[elements[p][2]].size = <<T(50), T(50)>>
        /\ last.op = "select_element_at_position"
        /\ last.ret = elements[p][2]
        /\ selected_element = elements[p][2]

\* C5: the length of get_page_elements(page) is the number of add calls made
\* for the page minus the number of successful deletes of an element of the
\* page (select, move, edit and clear_selection count for nothing)
C5_LengthIsAddsMinusDeletes ==
    \A p \in PageNums : Len(get_page_elements(p)) = net[p]

\* C5 witness: after a successful delete a page still holds an element
C5_Witness ==
    /\ last.op = "delete_selected_element" /\ last.ret = TRUE
    /\ \E p \in PageNums : Len(get_page_elements(p)) = 1 /\ net[p] = 1

\* a sequence without the item x, the rest in the same order
Without(seq, x) == SelectSeq(seq, LAMBDA y : y # x)

\* C6: with e selected, delete_selected_element returns true, removes exactly e
\* from its page's sequence, leaves every other element in place and the
\* selection none; a delete right after it returns false and changes nothing
C6_DeleteRemovesExactlySelected ==
    [][/\ (last'.op = "delete_selected_element" /\ selected_element # None) =>
            LET e == selected_element
                page == heap[e].page_number
            IN  /\ last'.ret = TRUE
                /\ selected_element' = None
                /\ DOMAIN elements' = DOMAIN elements
                /\ \A p \in DOMAIN elements :
                       elements'[p] = IF p = page THEN Without(elements[p], e)
                                      ELSE elements[p]
                /\ Len(elements'[page]) = Len(elements[page]) - 1
                /\ \A a \in DOMAIN heap \ {e} :
                       a \in DOMAIN heap' /\ heap'[a] = heap[a]
       /\ (/\ last'.op = "delete_selected_element"
           /\ last.op = "delete_selected_element" /\ last.ret = TRUE) =>
            /\ last'.ret = FALSE
            /\ store' = store]_vars

\* C6 witness: a delete has succeeded and left another element on the store
C6_Witness ==
    /\ last.op = "delete_selected_element" /\ last.ret = TRUE
    /\ selected_element = None
    /\ Slots # {}

\* C7: successive move_selected_element calls on a selected element return
\* true and leave it at its position before the first of them plus the sum of
\* their deltas
C7_MovesAccumulate ==
    /\ (last.op = "move_selected_element" /\ selected_element # None) =>
           last.ret = TRUE
    /\ (last.op = "move_selected_element" /\ last.ret = TRUE) =>
           /\ selected_element # None
           /\ heap[selected_element].position =
                  <<run.start[1] + run.sum[1], run.start[2] + run.sum[2]>>

\* C7 witness: moves summing to (5,5) have left the element at p + (5,5)
C7_Witness ==
    /\ last.op = "move_selected_element" /\ last.ret = TRUE
    /\ run.start = <<T(0), T(0)>>
    /\ run.sum = <<T(5), T(5)>>
    /\ heap[selected_element].position = <<T(5), T(5)>>

\* C8: edit_selected_element(new_content) on a selected text element sets its
\* content to new_content and returns true; on a selected image element it
\* returns false and leaves the element and the rest of the store unchanged
C8_EditOnlyText ==
    [][(last'.op = "edit_selected_element" /\ selected_element # None) =>
          \A t \in NewContents :
              edit_selected_element(t) =>
                  IF heap[selected_element].type = "text"
                  THEN /\ last'.ret = TRUE
                       /\ heap'[selected_element].content = t
                  ELSE /\ last'.ret = FALSE
                       /\ store' = store]_vars

\* C8 witness: an edit of a selected image element has returned false
C8_Witness ==
    /\ last.op = "edit_selected_element" /\ last.ret = FALSE
    /\ selected_element # None
    /\ heap[selected_element].type = "image"

\* C9: every text element of the store has size
\* (0.6 x font_size x number of characters of its content, font_size)
\* (in tenths: width 6 x font_size x characters, height 10 x font_size)
C9_TextSizeFollowsContent ==
    \A sl \in Slots :
        At(sl).type = "text" =>
            /\ At(sl).size[1] = 6 * At(sl).font_size * Len(At(sl).content)
            /\ At(sl).size[2] = 10 * At(sl).font_size

\* C9 witness: an edit to "hello" at font size 12 gave width 36 and height 12,
\* and one at font size 10 gave width 30
C9_Witness ==
    /\ last.op = "edit_selected_element" /\ last.ret = TRUE
    /\ \E sl \in Slots :
           /\ At(sl).content = "hello" /\ At(sl).font_size = 12
           /\ At(sl).size = <<360, 120>>
    /\ \E sl \in Slots :
           /\ At(sl).content = "hello" /\ At(sl).font_size = 10
           /\ At(sl).size = <<300, 100>>

\* C10: with nothing selected, move_selected_element, edit_selected_element and
\* delete_selected_element return false and leave the store unchanged
C10_NoSelectionNoEffect ==
    [][(/\ selected_element = None
        /\ last'.op \in {"move_selected_element", "edit_selected_element",
                         "delete_selected_element"}) =>
           /\ last'.ret = FALSE
           /\ store' = store]_vars

\* C10 witness: one of the three calls has returned false on a store that holds
\* elements, none of them selected
C10_Witness ==
    /\ last.op \in {"move_selected_element", "edit_selected_element",
                    "delete_selected_element"}
    /\ last.ret = FALSE
    /\ selected_element = None
    /\ Slots # {}

\* the items of a sequence
Range(seq) == {seq[i] : i \in 1..Len(seq)}

\* the sequence of page p in a value of `elements`, empty when p is no key
PageOf(els, p) == IF p \in DOMAIN els THEN els[p] ELSE <<>>

AddOps == {"add_text_element", "add_image_element"}

\* C11: elements are never reordered: in every step the elements that remain
\* in a page's sequence keep their relative order, and an add step puts the
\* new element at the end of one page's sequence and changes no other page
C11_NeverReordered ==
    [][/\ \A p \in PageNums :
              LET old == PageOf(elements, p)
                  new == PageOf(elements', p)
              IN  IF last'.op \in AddOps
                  THEN new = old \/ new = Append(old, last'.ret)
                  ELSE new = SelectSeq(old, LAMBDA a : a \in Range(new))
       /\ last'.op \in AddOps =>
              /\ last'.ret \notin DOMAIN heap
              /\ \E p \in PageNums :
                     PageOf(elements', p) = Append(PageOf(elements, p), last'.ret)]_vars

\* C11 witness: an add has put its element behind an older element of the
\* page, the older one having the greater id
C11_Witness ==
    /\ last.op \in AddOps
    /\ \E p \in DOMAIN elements :
           /\ Len(elements[p]) = 2
           /\ elements[p][2] = last.ret
           /\ elements[p][1] > elements[p][2]

SelectionEnders ==
    {"clear_selection", "select_element_at_position", "delete_selected_element"}

\* C12: an element becomes the global selection only in a select step that
\* returns it; it stops being the global selection only in a clear_selection,
\* select or delete step; move and edit steps change neither the global
\* selection nor any element's selected flag
C12_SelectionStateMachine ==
    [][/\ (selected_element' # selected_element /\ selected_element' # None) =>
              /\ last'.op = "select_element_at_position"
              /\ last'.ret = selected_element'
       /\ (selected_element # None /\ selected_element' # selected_element) =>
              last'.op \in SelectionEnders
       /\ last'.op \in {"move_selected_element", "edit_selected_element"} =>
              /\ selected_element' = selected_element
              /\ DOMAIN heap' = DOMAIN heap
              /\ \A a \in DOMAIN heap : heap'[a].selected = heap[a].selected]_vars

\* C12 witness: a successful edit has left its element selected and flagged,
\* next to another element that is not
C12_Witness ==
    /\ last.op = "edit_selected_element" /\ last.ret = TRUE
    /\ selected_element # None
    /\ heap[selected_element].selected
    /\ \E a \in DOMAIN heap : ~heap[a].selected

\* C13: after close_pdf, get_page_elements(p) is empty for every page p and no
\* element is selected
C13_CloseDiscardsOverlay ==
    last.op = "close_pdf" =>
        /\ \A p \in PageNums : get_page_elements(p) = <<>>
        /\ selected_element = None
        /\ SelectedSlots = {}

\* C14: the id given to a newly created element differs from the id of every
\* element created earlier, the deleted ones included
C14_IdsNeverReused ==
    [][last'.op \in AddOps => last'.ret \notin issued]_vars

\* C15: a select_element_at_position call that follows a call with the same
\* page and point, nothing done in between, returns the same result and
\* leaves the store as the first call left it
C15_SelectIdempotent ==
    [][(/\ last.op = "select_element_at_position"
        /\ last'.op = "select_element_at_position"
        /\ last'.args = last.args) =>
           /\ last'.ret = last.ret
           /\ store' = store]_vars

\* C15 witness: a select has returned an element of a store that holds
\* another one, and the same call made again from here returns the same
\* element and gives the same store
C15_Witness ==
    /\ last.op = "select_element_at_position"
    /\ last.ret # None
    /\ \E a \in DOMAIN heap : a # last.ret
    /\ SelectAt(heap, elements, selected_element, last.args[1], last.args[2]) =
           [heap |-> heap, selected_element |-> selected_element, ret |-> last.ret]

\* C16: clear_selection ends with no element flagged selected and
\* selected_element none; with nothing selected (so also right after another
\* clear_selection) it leaves the whole store unchanged
C16_ClearSelection ==
    [][last'.op = "clear_selection" =>
          /\ selected_element' = None
          /\ \A a \in DOMAIN heap' : ~heap'[a].selected
          /\ selected_element = None => store' = store]_vars

\* C16 witness: clear_selection has left a store that holds elements, none
\* of them flagged
C16_Witness ==
    /\ last.op = "clear_selection"
    /\ selected_element = None
    /\ Slots # {}
    /\ SelectedSlots = {}

OverlayOps ==
    {"add_text_element", "add_image_element", "select_element_at_position",
     "move_selected_element", "edit_selected_element",
     "delete_selected_element", "clear_selection"}

\* C17: the overlay operations leave current_pdf (the document and the
\* rotation of its pages), current_path and pages_info unchanged
C17_OverlayLeavesDocument ==
    [][last'.op \in OverlayOps =>
          UNCHANGED <<current_pdf, current_path, pages_info>>]_vars

\* C17 witness: with a document open, an image has been added and the
\* document's fields are those load_pdf set
C17_Witness ==
    /\ last.op = "add_image_element"
    /\ current_pdf = Open("doc.pdf")
    /\ current_path = "doc.pdf"
    /\ pages_info = PagesInfoOf(Open("doc.pdf"))

\* C18: after a <Button-1> at P0 that hits an element at position p, followed
\* by pointer-moves to P1..Pn in edit mode, the element is at p + (Pn - P0)
\* (press.goal is p + (P1 - P0) + ... + (Pn - Pn-1))
C18_DragFollowsPointer ==
    press.id # None => heap[press.id].position = press.goal

\* C19: the position of an element changes only in a step taken after a
\* pointer-down that selected it and before the next release; so from a
\* release until a later pointer-down hits an element, no position changes
C19_MovesOnlyWhileArmed ==
    [][\A a \in DOMAIN heap \cap DOMAIN heap' :
          heap'[a].position # heap[a].position => a \in armed]_vars

\* C19 witness: a drag has moved the element the pointer-down selected away
\* from where the window put it, and the other element of the store stayed
\* there
C19_Witness ==
    /\ dragging
    /\ drag_start # NoPoint
    /\ Cardinality(DOMAIN heap) = 2
    /\ \E a \in armed :
           /\ selected_element = a
           /\ heap[a].position # <<T(200), T(200)>>
           /\ \A b \in DOMAIN heap \ {a} : heap[b].position = <<T(200), T(200)>>

\* C20: after an Escape key handled by on_canvas_key in a state in which an
\* element was selected, no element is selected
C20_EscapeClearsSelection ==
    (event.key = "Escape" /\ event.was # None) => selected_element = None

\* C20 amended: after an Escape key handled by on_canvas_key in edit mode no
\* element is selected nor flagged; outside edit mode the selection is the
\* one the key found
C20_EscapeClearsSelectionInEditMode ==
    event.key = "Escape" =>
        IF edit_mode
        THEN /\ selected_element = None
             /\ \A a \in DOMAIN heap : ~heap[a].selected
        ELSE selected_element = event.was

\* C20 witness: in edit mode an Escape has found an element selected and
\* left none
C20_Witness ==
    /\ event.key = "Escape"
    /\ event.was # None
    /\ edit_mode
    /\ selected_element = None
    /\ event.was \in DOMAIN heap

\* C21: a double-click in edit mode that hits a text element, confirmed with
\* a non-empty text T other than the content of the element, leaves that
\* element with the content T and the size (0.6 x font size x length of T,
\* font size)
C21_GuiEditReplacesText ==
    [][\A ev \in Pointer, new_text \in EditTexts \ {""} :
         \A r \in {SelectAt(heap, elements, selected_element, current_page,
                            CanvasPoint(ev))} :
           (/\ edit_mode
            /\ current_pdf # NoDoc
            /\ r.ret # None
            /\ r.heap[r.ret].type = "text"
            /\ new_text # r.heap[r.ret].content
            /\ on_canvas_double_click(ev, new_text))
           => /\ heap'[r.ret].content = new_text
              /\ heap'[r.ret].size = TextSize(new_text, heap'[r.ret].font_size)]_vars

\* C24: a step of add_text with a non-empty text, or of add_image with a
\* chosen file, on a loaded document appends exactly one new element to the
\* sequence of the current page, leaves every other sequence as it was, and
\* ends with edit_mode true, whatever edit_mode was before
C24_AddActivatesEditMode ==
    [][(/\ current_pdf # NoDoc
        /\ \/ \E t \in DialogTexts \ {""} : add_text(t)
           \/ \E f \in DialogImages \ {""} : add_image(f))
       => /\ edit_mode'
          /\ \E a \in DOMAIN heap' \ DOMAIN heap :
                 elements' = AppendTo(elements, current_page, a)]_vars

\* C24 witness: with edit mode on, the second page shows a text and an image
\* that the window has added, each where the window puts a new element
C24_Witness ==
    /\ edit_mode
    /\ current_page = 1
    /\ 1 \in DOMAIN elements
    /\ Len(elements[1]) = 2
    /\ {heap[a].type : a \in Range(elements[1])} = {"text", "image"}
    /\ \A a \in Range(elements[1]) : heap[a].position = <<T(200), T(200)>>

\* C26: in every reachable state of the store an element held in a page's
\* sequence has selected = true exactly if it is selected_element, and a
\* selected_element that is not None is a member of the sequence stored under
\* its own page_number, so that delete_selected_element would return True
C26_SelectionConsistent ==
    /\ \A sl \in Slots :
           At(sl).selected <=> elements[sl[1]][sl[2]] = selected_element
    /\ selected_element # None =>
           /\ heap[selected_element].page_number \in DOMAIN elements
           /\ selected_element \in
                  Range(elements[heap[selected_element].page_number])
           /\ DeleteSelected(heap, elements, selected_element).ret

\* C26 witness: a select has left an element of the second page selected,
\* while the first page holds one element, which is not selected
C26_Witness ==
    /\ last.op = "select_element_at_position"
    /\ selected_element # None
    /\ heap[selected_element].page_number = 1
    /\ heap[selected_element].selected
    /\ 0 \in DOMAIN elements
    /\ Len(elements[0]) = 1
    /\ ~heap[elements[0][1]].selected

\* C27: in every reachable state of the window, a selected element is an
\* element of the displayed page: its page_number is current_page
C27_SelectionOnDisplayedPage ==
    selected_element # None => heap[selected_element].page_number = current_page

\* C30: a pointer-down, pointer-move, double-click or key event (Delete,
\* Escape) handled while edit_mode is false leaves the overlay store as it
\* was: the objects (none added, removed, moved or edited), the sequences of
\* the pages and the selection
C30_NoEditOutsideEditMode ==
    [][(/\ ~edit_mode
        /\ \/ \E ev \in Pointer : on_canvas_click(ev)
           \/ \E ev \in Pointer : on_canvas_drag(ev)
           \/ \E ev \in Pointer, t \in EditTexts : on_canvas_double_click(ev, t)
           \/ \E k \in Keys, confirm \in BOOLEAN : on_canvas_key(k, confirm))
       => UNCHANGED <<heap, elements, selected_element>>]_vars

\* C30 witness: a Delete key has been handled with edit mode off and an
\* element selected, and that element is still selected
C30_Witness ==
    /\ ~edit_mode
    /\ event.key = "Delete"
    /\ event.was # None
    /\ selected_element = event.was
    /\ selected_element \in Range(PageOf(elements, current_page))

\* C28: after an event that has redrawn the canvas in edit mode,
\* canvas_elements holds an entry for every element of the current page
C28_RedrawDrawsEveryElement ==
    (drawn /\ edit_mode) =>
        canvas_elements = Range(get_page_elements(current_page))

\* C22: when the window calls PDFEditor.extract_pages after the user chose
\* the option "all", "range" or "list", the page_numbers it passes are the
\* pages the user specified, whatever page is displayed
C22_ExtractPassesSpecifiedPages ==
    passed.option \in {"all", "range", "list"} =>
        passed.page_numbers = passed.chosen

\* C23: over a run of rotate_left and rotate_right on the displayed page, the
\* rotation of the page is its rotation before the run turned by 90 degrees
\* to the right for each rotate_right and by 90 degrees to the left for each
\* rotate_left (so rotate_right, rotate_left restores it, and rotate_right
\* twice leaves it 180 degrees from where it was)
C23_RotationsAreRelative ==
    turn.page # 0 - 1 =>
        current_pdf.rotation[turn.page + 1] = (turn.start + turn.sum) % 360

\* C29: whenever a document is loaded, 0 <= current_page <= page count - 1;
\* a prev_page on the first page and a next_page on the last page leave
\* current_page as it was
C29_NavigationInRange ==
    [][/\ current_pdf' # NoDoc =>
              (0 <= current_page' /\ current_page' <= get_page_count' - 1)
       /\ (current_page = 0 /\ prev_page) => current_page' = current_page
       /\ (current_pdf # NoDoc /\ current_page = get_page_count - 1 /\ next_page)
              => current_page' = current_page]_vars

\* C25: a document operation called with no document loaded returns 0
\* (get_page_count), None (get_page_image) or False (rotate_page,
\* extract_pages, add_text, save_pdf); get_page_image, rotate_page and
\* add_text called on a loaded document with a page number >= the page count
\* return None, False and False; in all these cases the fields of the editor
\* are left as they were
C25_DocumentOperationsFailAsValues ==
    [][/\ (current_pdf = NoDoc /\ last'.op = "get_page_count")
              => (last'.ret = 0 /\ store' = store)
       /\ (current_pdf = NoDoc /\ last'.op = "get_page_image")
              => (last'.ret = None /\ store' = store)
       /\ (current_pdf = NoDoc
             /\ last'.op \in {"rotate_page", "extract_pages", "add_text", "save_pdf"})
              => (last'.ret = FALSE /\ store' = store)
       /\ (current_pdf # NoDoc /\ last'.op = "get_page_image"
             /\ last'.args[1] >= get_page_count)
              => (last'.ret = None /\ store' = store)
       /\ (current_pdf # NoDoc /\ last'.op \in {"rotate_page", "add_text"}
             /\ last'.args[1] >= get_page_count)
              => (last'.ret = FALSE /\ store' = store)]_vars

\* C25 witness: rotate_page was called with a page number past the last page
\* of a loaded document, one page of which was rotated before, and returned
\* False
C25_Witness ==
    /\ current_pdf # NoDoc
    /\ \E i \in DOMAIN current_pdf.rotation : current_pdf.rotation[i] # 0
    /\ last.op = "rotate_page"
    /\ last.args[1] >= get_page_count
    /\ last.ret = FALSE

====
